---- MODULE Spec2Model ----
(***************************************************************************)
(* Article HTML sectioning pipeline of WikiScape                           *)
(* (utils/articleParsing: parseHtml, extractInfoboxImage, extractInfobox,  *)
(* extractIntro, splitIntoSections) and its caller parseArticleHtml in     *)
(* ArticleSectionedRenderer.                                               *)
(*                                                                         *)
(* An HTML string is a sequence of lexemes: an opening tag with its        *)
(* attributes, a closing tag, or one word of character data.  A DOM node   *)
(* is a record with its children in `kids`; a text node holds the words of *)
(* a maximal run of character data.  parseDocument and render are the two  *)
(* conversions between the representations.                                *)
(***************************************************************************)
EXTENDS Integers, Sequences, FiniteSets, TLC

VARIABLES
  articleHtml,     \* the string the current run started from
  pc,              \* what has been called on it
  infoboxResult,   \* the result of extractInfobox
  introResult,     \* the result of extractIntro
  sectionsResult,  \* the result of splitIntoSections
  parseResult,     \* the result of parseHtml called on its own
  depth,           \* how many times an output has been fed back
  firstRun,        \* the input and the results of the first finished run
  \* ArticleSectionedRenderer: props, state, refs and scheduled callbacks
  mounted,                 \* "no", "yes", or "gone" after the unmount
  htmlSize,                \* articleHtml.length
  scrollToSection,         \* the prop of that name
  parsedContent,
  isParsing,
  shownSections,           \* the state `sections`
  expandedId,
  expandedSections,
  prevInitialSectionsRef,
  prevArticleHtmlRef,
  hasInitializedExpanded,
  timers,                  \* the zero-delay timers not yet run
  afterInteractions,       \* the runAfterInteractions task not yet run
  lastParse,               \* the last run of parseArticleHtml
  changes,                 \* how often the props have changed
  presses                  \* how many presses and scroll requests were made

----------------------------------------------------------------------------
(* Strings *)

\* One lexeme of an HTML string.
Lex(t, name, cls, src, dsrc, w, h) ==
  [t |-> t, name |-> name, cls |-> cls, src |-> src, dsrc |-> dsrc, w |-> w, h |-> h]

NoSrc == <<>>

Open(name)          == Lex("open", name, {}, NoSrc, NoSrc, "", "")
OpenC(name, cls)    == Lex("open", name, cls, NoSrc, NoSrc, "", "")
Img(src, dsrc, w, h) == Lex("open", "img", {}, src, dsrc, w, h)
Close(name)         == Lex("close", name, {}, NoSrc, NoSrc, "", "")
Word(s)             == Lex("text", s, {}, NoSrc, NoSrc, "", "")

\* typeof html === 'string'
IsString(h) == \A i \in 1..Len(h) : h[i].t \in {"open", "close", "text"}

\* null or undefined in the place of a string.
Undefined == <<Lex("undefined", "", {}, NoSrc, NoSrc, "", "")>>

\* !html : the empty string, null and undefined.
Falsy(html) == html = <<>> \/ html = Undefined

\* White space inside character data.
WS == " "

\* html.trim() === '' : nothing but white space.
IsBlank(html) ==
  \A i \in 1..Len(html) : html[i].t = "text" /\ html[i].name = WS

\* String.prototype.trim on a sequence of words.
RECURSIVE TrimLeft(_)
TrimLeft(ws) ==
  IF ws # <<>> /\ Head(ws) = WS THEN TrimLeft(Tail(ws)) ELSE ws

RECURSIVE TrimRight(_)
TrimRight(ws) ==
  IF ws # <<>> /\ ws[Len(ws)] = WS THEN TrimRight(SubSeq(ws, 1, Len(ws) - 1)) ELSE ws

Trim(ws) == TrimRight(TrimLeft(ws))

\* src.startsWith(prefix) on a sequence of URL pieces.
StartsWith(s, prefix) ==
  Len(s) >= Len(prefix) /\ SubSeq(s, 1, Len(prefix)) = prefix

----------------------------------------------------------------------------
(* const x = v; F(x) : the value is computed once and bound to a name. *)
Let(v, F(_)) == CHOOSE r \in {F(x) : x \in {v}} : TRUE

----------------------------------------------------------------------------
(* DOM *)

Node(name, cls, src, dsrc, w, h, words, kids) ==
  [name |-> name, cls |-> cls, src |-> src, dsrc |-> dsrc, w |-> w, h |-> h,
   words |-> words, kids |-> kids]

TextNode(words) == Node("#text", {}, NoSrc, NoSrc, "", "", words, <<>>)
ElemOf(lx, kids) == Node(lx.name, lx.cls, lx.src, lx.dsrc, lx.w, lx.h, <<>>, kids)
Document(kids)  == Node("#document", {}, NoSrc, NoSrc, "", "", <<>>, kids)

IsText(n) == n.name = "#text"
IsElem(n) == n.name # "#text" /\ n.name # "#document"

\* Elements that never have children and no closing tag.
VoidElements == {"img", "br", "hr"}

\* htmlparser2: the open elements an opening tag closes implicitly.
OpenImpliesClose(name) ==
  CASE name = "tr" -> {"tr", "th", "td"}
    [] name = "th" -> {"th"}
    [] name = "td" -> {"thead", "th", "td"}
    [] name = "body" -> {"head", "link", "script"}
    [] name \in {"p", "h1", "h2", "h3", "h4", "div", "section", "table"} -> {"p"}
    [] OTHER -> {}

\* Append a node to the children of the innermost open element; adjacent
\* character data is merged into one text node.
AddChild(stack, n) ==
  LET k == stack[Len(stack)].kids
  IN IF IsText(n) /\ k # <<>> /\ IsText(k[Len(k)])
     THEN [stack EXCEPT ![Len(stack)].kids[Len(k)].words = @ \o n.words]
     ELSE [stack EXCEPT ![Len(stack)].kids = Append(@, n)]

\* Close the innermost open element.
CloseTop(stack) ==
  AddChild(SubSeq(stack, 1, Len(stack) - 1), stack[Len(stack)])

RECURSIVE CloseWhileImplied(_, _)
CloseWhileImplied(stack, names) ==
  IF Len(stack) > 1 /\ stack[Len(stack)].name \in names
  THEN Let(CloseTop(stack), LAMBDA s : CloseWhileImplied(s, names))
  ELSE stack

RECURSIVE CloseUntil(_, _)
CloseUntil(stack, name) ==
  IF stack[Len(stack)].name = name
  THEN CloseTop(stack)
  ELSE Let(CloseTop(stack), LAMBDA s : CloseUntil(s, name))

RECURSIVE CloseAll(_)
CloseAll(stack) ==
  IF Len(stack) > 1 THEN Let(CloseTop(stack), LAMBDA s : CloseAll(s)) ELSE stack

OpenTag(stack, lx) ==
  IF lx.name \in VoidElements
  THEN AddChild(stack, ElemOf(lx, <<>>))
  ELSE Append(stack, ElemOf(lx, <<>>))

CloseTag(stack, name) ==
  IF \E i \in 2..Len(stack) : stack[i].name = name
  THEN CloseUntil(stack, name)
  ELSE IF name = "p"
       THEN AddChild(stack, ElemOf(Open("p"), <<>>))
       ELSE stack

ParseStep(stack, lx) ==
  CASE lx.t = "text" -> AddChild(stack, TextNode(<<lx.name>>))
    [] lx.t = "open" ->
         Let(CloseWhileImplied(stack, OpenImpliesClose(lx.name)),
             LAMBDA s : OpenTag(s, lx))
    [] OTHER -> CloseTag(stack, lx.name)

RECURSIVE ParseFrom(_, _, _)
ParseFrom(html, i, stack) ==
  IF i > Len(html)
  THEN CloseAll(stack)[1]
  ELSE Let(ParseStep(stack, html[i]), LAMBDA s : ParseFrom(html, i + 1, s))

\* htmlparser2.parseDocument: tolerant of unclosed and stray tags.
parseDocument(html) == ParseFrom(html, 1, <<Document(<<>>)>>)

RECURSIVE render(_)
\* dom-serializer render of one node.
render(n) ==
  IF IsText(n) THEN [i \in 1..Len(n.words) |-> Word(n.words[i])]
  ELSE LET inner(i) == render(n.kids[i])
           RECURSIVE Kids(_)
           Kids(i) == IF i > Len(n.kids) THEN <<>> ELSE inner(i) \o Kids(i + 1)
       IN IF n.name = "#document" THEN Kids(1)
          ELSE IF n.name \in VoidElements
               THEN <<Lex("open", n.name, n.cls, n.src, n.dsrc, n.w, n.h)>>
               ELSE <<Lex("open", n.name, n.cls, n.src, n.dsrc, n.w, n.h)>>
                      \o Kids(1) \o <<Close(n.name)>>

RECURSIVE RenderAll(_)
\* render of a sequence of nodes, one after the other.
RenderAll(nodes) ==
  IF nodes = <<>> THEN <<>> ELSE render(Head(nodes)) \o RenderAll(Tail(nodes))

----------------------------------------------------------------------------
(* Tree navigation: a node is named by its path, the child indices that    *)
(* lead to it from the document root.                                      *)

\* The value of a selectOne that matched nothing.
Null == <<0>>

RECURSIVE NodeAt(_, _)
NodeAt(n, path) ==
  IF path = <<>> THEN n ELSE NodeAt(n.kids[Head(path)], Tail(path))

Parent(path) == SubSeq(path, 1, Len(path) - 1)

IsPrefix(p, q) == Len(p) <= Len(q) /\ SubSeq(q, 1, Len(p)) = p

RemoveIndex(seq, i) == SubSeq(seq, 1, i - 1) \o SubSeq(seq, i + 1, Len(seq))

RECURSIVE RemoveAt(_, _)
\* domutils removeElement: detach the node at `path` from its parent.
RemoveAt(n, path) ==
  IF Len(path) = 1
  THEN [n EXCEPT !.kids = RemoveIndex(@, path[1])]
  ELSE [n EXCEPT !.kids[Head(path)] = RemoveAt(@, Tail(path))]

RECURSIVE ElemPaths(_, _)
RECURSIVE KidsPaths(_, _, _)
\* The elements of the subtree at `path`, the root of the subtree included,
\* in document order.
ElemPaths(n, path) ==
  IF IsText(n) THEN <<>>
  ELSE (IF IsElem(n) THEN <<path>> ELSE <<>>) \o KidsPaths(n.kids, path, 1)

KidsPaths(kids, path, i) ==
  IF i > Len(kids) THEN <<>>
  ELSE ElemPaths(kids[i], Append(path, i)) \o KidsPaths(kids, path, i + 1)

\* A selector is a tag name or, with a leading dot, a class name.
InfoboxSelector == ".infobox"

Matches(n, sel) ==
  IF sel = InfoboxSelector THEN "infobox" \in n.cls ELSE n.name = sel

RECURSIVE SelectFrom(_, _, _, _)
SelectFrom(dom, sel, roots, i) ==
  IF i > Len(roots) THEN <<>>
  ELSE SelectSeq(ElemPaths(NodeAt(dom, roots[i]), roots[i]),
                 LAMBDA q : Matches(NodeAt(dom, q), sel))
       \o SelectFrom(dom, sel, roots, i + 1)

\* css-select selectAll(sel, [roots]): the roots and their descendants.
selectAll(dom, sel, roots) == SelectFrom(dom, sel, roots, 1)

\* getChildren(node), as paths.
getChildren(dom, path) ==
  [i \in 1..Len(NodeAt(dom, path).kids) |-> Append(path, i)]

\* css-select selectAll(sel, node): the descendants of one node.
selectAllUnder(dom, sel, path) == selectAll(dom, sel, getChildren(dom, path))

FirstOf(all) == IF all = <<>> THEN Null ELSE all[1]

selectOne(dom, sel, roots) == Let(selectAll(dom, sel, roots), FirstOf)

RECURSIVE textContent(_)
RECURSIVE TextOfAll(_)
\* domutils textContent: the character data of a subtree, in document order.
textContent(n) == IF IsText(n) THEN n.words ELSE TextOfAll(n.kids)

TextOfAll(nodes) ==
  IF nodes = <<>> THEN <<>> ELSE textContent(Head(nodes)) \o TextOfAll(Tail(nodes))

\* The nodes at a sequence of paths.
NodesAt(dom, paths) == [i \in 1..Len(paths) |-> NodeAt(dom, paths[i])]

\* render of a fresh document whose children are the nodes at `paths`.
RenderNodes(dom, paths) == RenderAll(NodesAt(dom, paths))

\* The least element of a set of indices; 0 for the empty set.
First(hits) == IF hits = {} THEN 0 ELSE CHOOSE i \in hits : \A j \in hits : i <= j

----------------------------------------------------------------------------
(* parseHtml *)

\* A raised exception, and a value returned normally.
Raise     == [exc |-> TRUE]
Return(v) == [exc |-> FALSE, val |-> v]

\* A check that also rejects strings of white space.
parseHtml_RejectBlank(html) ==
  IF Falsy(html) \/ ~IsString(html) \/ IsBlank(html) THEN Raise
  ELSE Return(parseDocument(html))

\* !html || typeof html !== 'string' : the empty string and non-strings are
\* rejected.
parseHtml(html) ==
  IF Falsy(html) \/ ~IsString(html) THEN Raise ELSE Return(parseDocument(html))

----------------------------------------------------------------------------
(* extractInfoboxImage *)

\* A number, or NaN.
Num(n) == [nan |-> FALSE, val |-> n]
NaN    == [nan |-> TRUE, val |-> 0]

\* parseInt(s, 10) on the attribute values that occur.
parseInt(s) ==
  CASE s = "100"   -> Num(100)
    [] s = "50"    -> Num(50)
    [] s = "220px" -> Num(220)
    [] s = "400"   -> Num(400)
    [] s = "300"   -> Num(300)
    [] OTHER       -> NaN

\* a || b on strings: the empty string is falsy.
OrElse(a, b) == IF Len(a) > 0 THEN a ELSE b

NoImage == [none |-> TRUE, src |-> NoSrc, width |-> NaN, height |-> NaN]

HttpsScheme     == <<"https:">>
WikipediaOrigin == <<"https:", "/", "/", "en.wikipedia.org">>

\* if (src.startsWith('//')) src = 'https:' + src
ResolveProtocol(src) ==
  IF StartsWith(src, <<"/", "/">>) THEN HttpsScheme \o src ELSE src

\* if (src.startsWith('/') && !src.startsWith('//')) src = origin + src
ResolveRoot(src) ==
  IF StartsWith(src, <<"/">>) /\ ~StartsWith(src, <<"/", "/">>)
  THEN WikipediaOrigin \o src
  ELSE src

\* The record built from the attributes of the image; the alt text is
\* computed by extractAltText and is left out.
ImageOf(attrs) ==
  [none   |-> FALSE,
   src    |-> ResolveRoot(ResolveProtocol(OrElse(attrs.src, attrs.dsrc))),
   width  |-> parseInt(IF attrs.w # "" THEN attrs.w ELSE "400"),
   height |-> parseInt(IF attrs.h # "" THEN attrs.h ELSE "300")]

\* selectOne('img', dom.children) and what follows.
FirstImage(dom) ==
  Let(selectOne(dom, "img", getChildren(dom, <<>>)),
      LAMBDA imgElement :
        IF imgElement = Null THEN NoImage ELSE ImageOf(NodeAt(dom, imgElement)))

extractInfoboxImage(infoboxHtml) ==
  Let(parseHtml(infoboxHtml),
      LAMBDA parsed : IF parsed.exc THEN NoImage ELSE FirstImage(parsed.val))

----------------------------------------------------------------------------
(* extractInfobox *)

InfoboxResult(threw, caught, infoboxHtml, infoboxImage, remaining) ==
  [threw |-> threw, caught |-> caught, infoboxHtml |-> infoboxHtml,
   infoboxImage |-> infoboxImage, remaining |-> remaining]

RECURSIVE FindRow(_, _, _)
\* The walk up from the image: the first tr met, or the tr that is the parent
\* of the first td met; the image itself when the walk reaches the root.
FindRow(dom, current, firstImg) ==
  IF current = <<>> THEN firstImg
  ELSE IF NodeAt(dom, current).name = "tr" THEN current
  ELSE IF NodeAt(dom, current).name = "td" /\ NodeAt(dom, Parent(current)).name = "tr"
       THEN Parent(current)
       ELSE FindRow(dom, Parent(current), firstImg)

\* The node removed from the infobox for the image; Null when none is.
NodeToRemove(dom, infoboxElement, infoboxImage) ==
  IF infoboxImage.none THEN Null
  ELSE Let(selectAll(dom, "img", <<infoboxElement>>),
           LAMBDA imgElements :
             IF Len(imgElements) = 0 THEN Null
             ELSE FindRow(dom, imgElements[1], imgElements[1]))

\* The infobox is serialized but stays in the document.
AfterRemoval_InfoboxLeft(dom, infoboxElement, infoboxImage, nodeToRemove) ==
  InfoboxResult(FALSE, FALSE, render(NodeAt(dom, infoboxElement)), infoboxImage,
                render(dom))

\* The two serializations after removeElement(nodeToRemove).  When the
\* removed node is the infobox itself or one of its ancestors, the infobox
\* element is already out of the document and keeps its image.
AfterRemoval(dom, infoboxElement, infoboxImage, nodeToRemove) ==
  IF nodeToRemove = Null
  THEN InfoboxResult(FALSE, FALSE, render(NodeAt(dom, infoboxElement)), infoboxImage,
                     render(RemoveAt(dom, infoboxElement)))
  ELSE IF IsPrefix(nodeToRemove, infoboxElement)
  THEN InfoboxResult(FALSE, FALSE, render(NodeAt(dom, infoboxElement)), infoboxImage,
                     render(RemoveAt(dom, nodeToRemove)))
  ELSE Let(RemoveAt(dom, nodeToRemove),
           LAMBDA dom1 :
             InfoboxResult(FALSE, FALSE, render(NodeAt(dom1, infoboxElement)),
                           infoboxImage, render(RemoveAt(dom1, infoboxElement))))

\* From the serialization of the infobox element on.
InfoboxFound(dom, infoboxElement) ==
  Let(extractInfoboxImage(render(NodeAt(dom, infoboxElement))),
      LAMBDA infoboxImage :
        Let(NodeToRemove(dom, infoboxElement, infoboxImage),
            LAMBDA nodeToRemove :
              AfterRemoval(dom, infoboxElement, infoboxImage, nodeToRemove)))

\* The document is serialized again when there is no infobox.
InfoboxIn_Reserialized(html, dom) ==
  Let(selectOne(dom, InfoboxSelector, getChildren(dom, <<>>)),
      LAMBDA infoboxElement :
        IF infoboxElement = Null
        THEN InfoboxResult(FALSE, FALSE, <<>>, NoImage, render(dom))
        ELSE InfoboxFound(dom, infoboxElement))

InfoboxIn(html, dom) ==
  Let(selectOne(dom, InfoboxSelector, getChildren(dom, <<>>)),
      LAMBDA infoboxElement :
        IF infoboxElement = Null
        THEN InfoboxResult(FALSE, FALSE, <<>>, NoImage, html)
        ELSE InfoboxFound(dom, infoboxElement))

\* The body of the try block.  `raise` stands for an exception raised by a
\* library call during the traversal.
extractInfoboxTry(html, raise) ==
  Let(parseHtml(html),
      LAMBDA parsed :
        IF parsed.exc \/ raise THEN Raise ELSE Return(InfoboxIn(html, parsed.val)))

\* A catch block that gives up the input.
extractInfobox_CatchEmpty(input, raise) ==
  Let(extractInfoboxTry(input, raise),
      LAMBDA r : IF r.exc THEN InfoboxResult(FALSE, TRUE, <<>>, NoImage, <<>>) ELSE r.val)

extractInfobox(html, raise) ==
  Let(extractInfoboxTry(html, raise),
      LAMBDA r : IF r.exc THEN InfoboxResult(FALSE, TRUE, <<>>, NoImage, html) ELSE r.val)

----------------------------------------------------------------------------
(* extractIntro *)

IntroResult(threw, caught, introHtml, remaining) ==
  [threw |-> threw, caught |-> caught, introHtml |-> introHtml,
   remaining |-> remaining]

\* selectOne('body', dom) || dom
BodyOf(dom) ==
  Let(selectOne(dom, "body", getChildren(dom, <<>>)),
      LAMBDA body : IF body = Null THEN <<>> ELSE body)

\* bodyChildren.filter(child => child.name === 'section')
SectionElements(dom, bodyChildren) ==
  SelectSeq(bodyChildren, LAMBDA c : NodeAt(dom, c).name = "section")

\* selectAll('h2', [child]).includes(h2)
Includes(seq, x) == \E k \in 1..Len(seq) : seq[k] = x

\* bodyChildren[i] === h2 || selectAll('h2', [bodyChildren[i]]).includes(h2)
HoldsH2(dom, child, h2) ==
  child = h2 \/ Includes(selectAll(dom, "h2", <<child>>), h2)

\* The first index from `from` on whose child holds the h2; 0 when none does.
IndexHolding(dom, bodyChildren, h2, from) ==
  Let({i \in from..Len(bodyChildren) : HoldsH2(dom, bodyChildren[i], h2)}, First)

\* The first section element that holds an h2; 0 when none does.
FirstH2Section(dom, sections) ==
  Let({i \in 1..Len(sections) : Len(selectAll(dom, "h2", <<sections[i]>>)) > 0}, First)

\* introNodes = slice(0, index), remainingNodes = slice(index), both rendered.
SplitAt(html, dom, nodes, index) ==
  IF index = 0
  THEN IntroResult(FALSE, FALSE, html, <<>>)
  ELSE IntroResult(FALSE, FALSE,
                   RenderNodes(dom, SubSeq(nodes, 1, index - 1)),
                   RenderNodes(dom, SubSeq(nodes, index, Len(nodes))))

\* No section element: split the body children at the first h2.
IntroByH2(html, dom, body, bodyChildren) ==
  Let(selectAllUnder(dom, "h2", body),
      LAMBDA h2Elements :
        IF Len(h2Elements) = 0
        THEN IntroResult(FALSE, FALSE, html, <<>>)
        ELSE Let(IndexHolding(dom, bodyChildren, h2Elements[1], 1),
                 LAMBDA firstH2Index : SplitAt(html, dom, bodyChildren, firstH2Index)))

\* Everything goes to remaining.
IntroBySections_NoIntro(html, dom, sections) == SplitAt(html, dom, sections, 1)

\* Section elements: split them at the first one that holds an h2.
IntroBySections(html, dom, sections) ==
  Let(FirstH2Section(dom, sections),
      LAMBDA firstH2SectionIndex : SplitAt(html, dom, sections, firstH2SectionIndex))

IntroIn(html, dom, body) ==
  Let(getChildren(dom, body),
      LAMBDA bodyChildren :
        Let(SectionElements(dom, bodyChildren),
            LAMBDA sections :
              IF Len(sections) = 0
              THEN IntroByH2(html, dom, body, bodyChildren)
              ELSE IntroBySections(html, dom, sections)))

extractIntroTry(html, raise) ==
  Let(parseHtml(html),
      LAMBDA parsed :
        IF parsed.exc \/ raise THEN Raise
        ELSE Return(Let(BodyOf(parsed.val), LAMBDA body : IntroIn(html, parsed.val, body))))

\* Without the try/catch: the exception reaches the caller.
extractIntro_NoCatch(html, raise) ==
  Let(extractIntroTry(html, raise),
      LAMBDA r : IF r.exc THEN IntroResult(TRUE, FALSE, <<>>, <<>>) ELSE r.val)

extractIntro(html, raise) ==
  Let(extractIntroTry(html, raise),
      LAMBDA r : IF r.exc THEN IntroResult(FALSE, TRUE, html, <<>>) ELSE r.val)

----------------------------------------------------------------------------
(* splitIntoSections *)

\* A counter that lives on from one call to the next.
SectionId_Carried(i) == <<"section-", i + depth>>

\* `section-${i}`
SectionId(i) == <<"section-", i>>

Section(id, heading, html) == [id |-> id, heading |-> heading, html |-> html]

SectionsResult(threw, caught, sections) ==
  [threw |-> threw, caught |-> caught, sections |-> sections]

\* text || 'Section'
OrSection(text) == IF text = <<>> THEN <<"Section">> ELSE text

\* The text is kept as it stands in the document.
HeadingOf_Untrimmed(dom, h2) == Let(textContent(NodeAt(dom, h2)), OrSection)

\* textContent(h2).trim() || 'Section'
HeadingOf(dom, h2) == Let(Trim(textContent(NodeAt(dom, h2))), OrSection)

\* The entry pushed when there is no h2 at all, and by the catch block.
ContentSection(html) == Section(SectionId(0), <<"Content">>, html)

\* A slice that leaves the heading's own node out.
SectionNodes_AfterHeading(bodyChildren, h2ContainerIndex, last) ==
  SubSeq(bodyChildren, h2ContainerIndex + 1, last)

\* bodyChildren.slice(h2ContainerIndex, endIndex), last = endIndex - 1
SectionNodes(bodyChildren, h2ContainerIndex, last) ==
  SubSeq(bodyChildren, h2ContainerIndex, last)

\* sections so far, with `raised` when the traversal was cut short.
Built(raised, sections) == [exc |-> raised, val |-> sections]

\* if (sectionHtml && sectionHtml.trim().length > 0) sections.push(...)
Push(sections, id, heading, sectionHtml) ==
  IF IsBlank(sectionHtml) THEN sections
  ELSE Append(sections, Section(id, heading, sectionHtml))

\* endIndex - 1: the child before the one that holds the next h2, or the last.
LastBefore(dom, bodyChildren, h2Elements, idx, h2ContainerIndex) ==
  IF idx + 1 > Len(h2Elements) THEN Len(bodyChildren)
  ELSE Let(IndexHolding(dom, bodyChildren, h2Elements[idx + 1], h2ContainerIndex + 1),
           LAMBDA nextIndex : IF nextIndex = 0 THEN Len(bodyChildren) ELSE nextIndex - 1)

\* One call of the forEach callback for the idx-th h2 (1-based).
H2Callback(dom, bodyChildren, h2Elements, idx, sections) ==
  Let(IndexHolding(dom, bodyChildren, h2Elements[idx], 1),
      LAMBDA h2ContainerIndex :
        IF h2ContainerIndex = 0 THEN sections
        ELSE Let(SectionNodes(bodyChildren, h2ContainerIndex,
                              LastBefore(dom, bodyChildren, h2Elements, idx, h2ContainerIndex)),
                 LAMBDA sectionNodes :
                   IF Len(sectionNodes) = 0 THEN sections
                   ELSE Push(sections, SectionId(idx - 1),
                             HeadingOf(dom, h2Elements[idx]),
                             RenderNodes(dom, sectionNodes))))

RECURSIVE ForEachH2(_, _, _, _, _, _)
\* h2Elements.forEach((h2, idx) => ...), from the idx-th heading (1-based) on.
\* throwAt = idx + 1 : a library call of this iteration raises.
ForEachH2(dom, bodyChildren, h2Elements, idx, sections, throwAt) ==
  IF idx > Len(h2Elements) THEN Built(FALSE, sections)
  ELSE IF throwAt = idx + 1 THEN Built(TRUE, sections)
  ELSE Let(H2Callback(dom, bodyChildren, h2Elements, idx, sections),
           LAMBDA pushed :
             ForEachH2(dom, bodyChildren, h2Elements, idx + 1, pushed, throwAt))

\* One call of the forEach callback for a section element: the list and the
\* counter sectionIdx after it.
SectionCallback(dom, section, sectionIdx, sections) ==
  Let(selectAll(dom, "h2", <<section>>),
      LAMBDA sectionH2s :
        IF Len(sectionH2s) = 0 THEN <<sections, sectionIdx>>
        ELSE Let(Push(sections, SectionId(sectionIdx), HeadingOf(dom, sectionH2s[1]),
                      RenderNodes(dom, <<section>>)),
                 LAMBDA pushed :
                   <<pushed, IF Len(pushed) > Len(sections) THEN sectionIdx + 1
                             ELSE sectionIdx>>))

RECURSIVE ForEachSection(_, _, _, _, _, _)
\* sectionElements.forEach(section => ...), from the i-th element (1-based) on.
\* throwAt = i + 1 : a library call of this iteration raises.
ForEachSection(dom, sectionElements, i, sectionIdx, sections, throwAt) ==
  IF i > Len(sectionElements) THEN Built(FALSE, sections)
  ELSE IF throwAt = i + 1 THEN Built(TRUE, sections)
  ELSE Let(SectionCallback(dom, sectionElements[i], sectionIdx, sections),
           LAMBDA after :
             ForEachSection(dom, sectionElements, i + 1, after[2], after[1], throwAt))

\* No section element: one entry per h2, or the whole input as 'Content'.
SectionsByH2(html, dom, body, bodyChildren, throwAt) ==
  Let(selectAllUnder(dom, "h2", body),
      LAMBDA h2Elements :
        IF Len(h2Elements) = 0
        THEN Built(FALSE, <<ContentSection(html)>>)
        ELSE ForEachH2(dom, bodyChildren, h2Elements, 1, <<>>, throwAt))

SectionsIn(html, dom, body, throwAt) ==
  Let(getChildren(dom, body),
      LAMBDA bodyChildren :
        Let(SectionElements(dom, bodyChildren),
            LAMBDA sectionElements :
              IF Len(sectionElements) = 0
              THEN SectionsByH2(html, dom, body, bodyChildren, throwAt)
              ELSE ForEachSection(dom, sectionElements, 1, 0, <<>>, throwAt)))

\* The try block.  throwAt = 0: no exception; 1: a library call before the
\* loop raises; k + 1: a library call of the k-th loop iteration raises.
splitIntoSectionsTry(html, throwAt) ==
  Let(parseHtml(html),
      LAMBDA parsed :
        IF parsed.exc \/ throwAt = 1 THEN Built(TRUE, <<>>)
        ELSE Let(BodyOf(parsed.val),
                 LAMBDA body : SectionsIn(html, parsed.val, body, throwAt)))

\* catch (err) { sections.push({id: 'section-0', heading: 'Content', html}) }
CatchSections(sections, html) == Append(sections, ContentSection(html))

\* try { ... } catch { ... } around the traversal.
TryCatch(html, throwAt) ==
  Let(splitIntoSectionsTry(html, throwAt),
      LAMBDA r :
        IF r.exc
        THEN SectionsResult(FALSE, TRUE, CatchSections(r.val, html))
        ELSE SectionsResult(FALSE, FALSE, r.val))

\* Without the early return for an empty or blank string.
splitIntoSections_NoEarlyReturn(input, throwAt) == TryCatch(input, throwAt)

splitIntoSections(html, throwAt) ==
  IF Falsy(html) \/ IsBlank(html)
  THEN SectionsResult(FALSE, FALSE, <<>>)
  ELSE TryCatch(html, throwAt)

----------------------------------------------------------------------------
(* Input documents *)

\* The longest run of top-level blocks in a generated document.
MaxBlocks == 3
\* How many lexemes are cut off the end of a document to leave tags unclosed.
MaxCut == 3
\* How often an output of the pipeline is fed back as its input.
MaxReapply == 1
\* The latest traversal step at which a library call raises.
MaxThrowAt == 3

ParaTexts == <<"Intro text", "History text", "Legacy text", "Reception text",
               "Notes text", "Sources text">>
HeadTexts == <<"Lead", "History", "Legacy", "Reception", "Notes", "Sources">>
MoreTexts == <<"Lead more", "History more", "Legacy more", "Reception more",
               "Notes more", "Sources more">>
MoreHeads == <<"Lead II", "History II", "Legacy II", "Reception II",
               "Notes II", "Sources II">>

Para(text) == <<Open("p"), Word(text), Close("p")>>
H2(text)   == <<Open("h2"), Word(text), Close("h2")>>

BlockKinds == {"p", "section", "h2section", "h2only", "h2", "wrapper"}

\* The i-th top-level block of a document.
Block(kind, i) ==
  CASE kind = "p"         -> Para(ParaTexts[i])
    [] kind = "section"   -> <<Open("section")>> \o Para(ParaTexts[i]) \o <<Close("section")>>
    [] kind = "h2section" -> <<Open("section")>> \o H2(HeadTexts[i]) \o Para(ParaTexts[i])
                               \o <<Close("section")>>
    [] kind = "h2only"    -> <<Open("section")>> \o H2(HeadTexts[i]) \o <<Close("section")>>
    [] kind = "h2"        -> H2(HeadTexts[i])
    [] OTHER              -> <<Open("div")>> \o H2(HeadTexts[i]) \o Para(ParaTexts[i])
                               \o H2(MoreHeads[i]) \o Para(MoreTexts[i]) \o <<Close("div")>>

RECURSIVE Blocks(_, _)
Blocks(kinds, i) ==
  IF i > Len(kinds) THEN <<>> ELSE Block(kinds[i], i) \o Blocks(kinds, i + 1)

KindSeqs == UNION {[1..n -> BlockKinds] : n \in 0..MaxBlocks}

InBody(html) == <<Open("body")>> \o html \o <<Close("body")>>

\* Image sources: protocol-relative, root-relative, bare relative, absolute,
\* plain http, and none.
SrcProtocolRelative == <<"/", "/", "x/y.png">>
SrcRootRelative     == <<"/", "static/y.png">>
SrcBare             == <<"y.png">>
SrcHttps            == <<"https:", "/", "/", "x/y.png">>
SrcHttp             == <<"http:", "/", "/", "x/y.png">>
ImageSources == {SrcProtocolRelative, SrcRootRelative, SrcBare, SrcHttps, SrcHttp, NoSrc}

Row(cell) == <<Open("tr"), Open("td")>> \o cell \o <<Close("td"), Close("tr")>>

\* <table class="infobox"> with the image in its first row.
InfoboxTable(img) ==
  <<OpenC("table", {"infobox"})>> \o Row(<<img>>) \o Row(<<Word("Born")>>)
    \o <<Close("table")>>

\* <div class="infobox vcard"> with a bare image.
InfoboxDiv(img) ==
  <<OpenC("div", {"infobox", "vcard"}), img, Word("Born"), Close("div")>>

Infoboxes ==
  {InfoboxTable(Img(s, NoSrc, "100", "50")) : s \in ImageSources}
  \cup {InfoboxDiv(Img(s, NoSrc, "", "abc")) : s \in ImageSources}
  \cup {InfoboxDiv(Img(NoSrc, SrcProtocolRelative, "220px", "")),
        \* no image at all
        <<OpenC("table", {"infobox"})>> \o Row(<<Word("Born")>>) \o <<Close("table")>>,
        \* the infobox inside a row of an outer table
        <<Open("table")>> \o Row(InfoboxDiv(Img(SrcProtocolRelative, NoSrc, "100", "50")))
          \o <<Close("table")>>,
        \* two infoboxes in the cells of one row of an outer table
        <<Open("table"), Open("tr"), Open("td")>>
          \o InfoboxDiv(Img(SrcProtocolRelative, NoSrc, "100", "50"))
          \o <<Close("td"), Open("td"), OpenC("div", {"infobox"}), Word("Second"),
               Close("div"), Close("td"), Close("tr"), Close("table")>>,
        \* two infoboxes
        InfoboxTable(Img(SrcProtocolRelative, NoSrc, "100", "50"))
          \o <<OpenC("div", {"infobox"}), Word("Second"), Close("div")>>}

\* What follows the infobox.
Tails == {<<"p", "h2section", "h2section">>, <<"section", "h2section", "section">>,
          <<"p", "h2", "p">>, <<"p">>, <<"section">>}

Cut(html, k) == SubSeq(html, 1, Len(html) - k)

\* The scenario of the specification: infobox, intro paragraph, two sections.
Scenario ==
  InBody(InfoboxTable(Img(SrcProtocolRelative, NoSrc, "100", "50"))
         \o Blocks(<<"p", "h2section", "h2section">>, 1))

Generated == {Blocks(ks, 1) : ks \in KindSeqs}

WithInfobox == {ib \o Blocks(t, 1) : ib \in Infoboxes, t \in Tails}

Malformed ==
  {Cut(Scenario, k) : k \in 1..MaxCut}
  \cup {Cut(Blocks(<<"p", "h2", "p">>, 1), k) : k \in 1..MaxCut}
  \cup {<<Word(WS)>>, <<Word(WS), Word(WS)>>,
        <<Close("div")>> \o Para("Intro text"),
        <<Close("p"), Open("h2")>>}

Sub(name, text) == <<Open(name), Word(text), Close(name)>>

InSection(html) == <<Open("section")>> \o html \o <<Close("section")>>

\* Documents with h1, h3 and h4 headings, padded and empty h2 headings, and
\* two h2 in one section-container.
Headed ==
  {InSection(Para("Intro text"))
     \o InSection(<<Open("h2"), Word(WS), Word("History"), Word(WS), Close("h2")>>
                    \o Sub("h3", "Early") \o Para("History text") \o Sub("h4", "Later"))
     \o InSection(Sub("h3", "Orphan") \o Para("Legacy text"))
     \o InSection(<<Open("h2"), Close("h2")>> \o Para("Reception text") \o H2("Notes")),
   InSection(Sub("h3", "Orphan") \o Para("Intro text"))
     \o InSection(H2("History") \o H2("Legacy") \o Sub("h3", "Early")),
   Para("Intro text") \o H2("History") \o Para("History text") \o Sub("h1", "Title")
     \o Para("Legacy text") \o H2("Legacy") \o Para("Reception text"),
   Para("Intro text") \o <<Open("h2"), Word(WS), Word("History"), Word(WS), Close("h2")>>
     \o Sub("h3", "Early") \o Para("History text") \o <<Open("h2"), Word(WS), Close("h2")>>
     \o Para("Legacy text")}

Inputs ==
  Generated \cup {InBody(d) : d \in Generated \cup WithInfobox \cup Headed}
  \cup WithInfobox \cup Malformed \cup Headed

----------------------------------------------------------------------------
(* ArticleSectionedRenderer: what a render and its effects compute *)

\* The ids of the two fixed entries, and expandedId = null.
IntroId   == <<"intro">>
InfoboxId == <<"infobox">>
NullId    == <<"null">>

\* The state parsedContent; `null` : nothing is stored.
Content(infoboxHtml, infoboxImage, introHtml, sectionsHtml) ==
  [null |-> FALSE, infoboxHtml |-> infoboxHtml, infoboxImage |-> infoboxImage,
   introHtml |-> introHtml, sectionsHtml |-> sectionsHtml]

NullContent ==
  [null |-> TRUE, infoboxHtml |-> <<>>, infoboxImage |-> NoImage,
   introHtml |-> <<>>, sectionsHtml |-> <<>>]

\* extractInfobox, extractIntro and splitIntoSections, one after the other.
PipelineOutput(html) ==
  Let(extractInfobox(html, FALSE),
      LAMBDA ib :
        Let(extractIntro(ib.remaining, FALSE),
            LAMBDA in :
              Content(ib.infoboxHtml, ib.infoboxImage, in.introHtml,
                      splitIntoSections(in.remaining, 0).sections)))

\* The documents given to the renderer: none, a stub, white space, the
\* scenario, and two documents that differ in the text of a section only.
Articles ==
  {<<>>,
   Para("Intro text"),
   <<Word(WS)>>,
   Scenario,
   InSection(Para("Intro text")) \o InSection(H2("History") \o Para("History text")),
   InSection(Para("Intro text")) \o InSection(H2("History") \o Para("Legacy text"))}

\* The output of the pipeline for each of these documents, computed once.
OutputOf == [html \in Articles |-> PipelineOutput(html)]

\* The 'content is the same' test of setParsedContent.
SameContent(prev, next) ==
  /\ ~prev.null
  /\ prev.infoboxHtml = next.infoboxHtml
  /\ prev.introHtml = next.introHtml
  /\ Len(prev.sectionsHtml) = Len(next.sectionsHtml)
  /\ \A i \in 1..Len(prev.sectionsHtml) :
       /\ prev.sectionsHtml[i].id = next.sectionsHtml[i].id
       /\ prev.sectionsHtml[i].heading = next.sectionsHtml[i].heading

\* setParsedContent((prev) => ...) of the try block.
StoreParsed(prev, next) == IF SameContent(prev, next) THEN prev ELSE next

\* The minimal structure of the catch block.
Fallback(html) == Content(<<>>, NoImage, html, <<>>)

\* The catch block stores nothing.
StoreFallback_Nothing(prev, html) == prev

\* setParsedContent((prev) => ...) of the catch block.
StoreFallback(prev, html) ==
  IF ~prev.null /\ prev.introHtml = html /\ Len(prev.sectionsHtml) = 0
  THEN prev
  ELSE Fallback(html)

\* parseArticleHtml: the value of parsedContent after it.  `throws` : a call
\* of the pipeline raised.
parseArticleHtml(prev, html, throws) ==
  IF throws THEN StoreFallback(prev, html) ELSE StoreParsed(prev, OutputOf[html])

LARGE_HTML_THRESHOLD == 100 * 1024

\* The test also sends a document of exactly the threshold the long way.
IsLarge_AtThreshold(size) == size >= LARGE_HTML_THRESHOLD

\* htmlSize > LARGE_HTML_THRESHOLD
IsLarge(size) == size > LARGE_HTML_THRESHOLD

\* An entry of the accordion list.
SectionState(id, heading, html, preloaded) ==
  [id |-> id, heading |-> heading, html |-> html, preloaded |-> preloaded]

\* The list shown while nothing is parsed.
LoadingSections ==
  <<SectionState(IntroId, <<"Introduction">>, Para("Loading..."), FALSE)>>

NoIntroduction == Para("No introduction available.")

\* The intro is handed on as it is.
IntroContent_AsIs(introHtml) == introHtml

\* introHtml && introHtml.trim() ? introHtml : '<p>No introduction available.</p>'
IntroContent(introHtml) == IF IsBlank(introHtml) THEN NoIntroduction ELSE introHtml

\* if (infoboxHtml && infoboxHtml.trim()) out.push(...)
InfoboxEntry(infoboxHtml) ==
  IF IsBlank(infoboxHtml) THEN <<>>
  ELSE <<SectionState(InfoboxId, <<"Infobox">>, infoboxHtml, FALSE)>>

AsSectionStates(kept) ==
  [i \in 1..Len(kept) |-> SectionState(kept[i].id, kept[i].heading, kept[i].html, FALSE)]

\* sectionsHtml.forEach: the entries that have content.
HeadingSections(sectionsHtml) ==
  Let(SelectSeq(sectionsHtml, LAMBDA s : ~IsBlank(s.html)), AsSectionStates)

\* useMemo(() => ..., [parsedContent])
initialSections(content) ==
  IF content.null THEN LoadingSections
  ELSE InfoboxEntry(content.infoboxHtml)
         \o <<SectionState(IntroId, <<"Introduction">>, IntroContent(content.introHtml), TRUE)>>
         \o HeadingSections(content.sectionsHtml)

\* What the sections effect reads and writes.
View(secs, prevInitial, prevHtml, initialized, id, ids) ==
  [shown |-> secs, prevInitialSections |-> prevInitial, prevArticleHtml |-> prevHtml,
   hasInitializedExpanded |-> initialized, expandedId |-> id, expandedSections |-> ids]

\* The comparison by length, ids and headings.
SectionsChanged(prevSecs, init) ==
  \/ Len(prevSecs) # Len(init)
  \/ \E i \in 1..Len(prevSecs) :
       prevSecs[i].id # init[i].id \/ prevSecs[i].heading # init[i].heading

\* The effect on [articleHtml, initialSections, initialExpandedSections];
\* initialExpandedSections is not given.
SyncEffect(v, html, init) ==
  IF v.prevArticleHtml # html
  THEN View(init, init, html, TRUE, IntroId, <<IntroId>>)
  ELSE View(IF SectionsChanged(v.prevInitialSections, init) THEN init ELSE v.shown,
            IF SectionsChanged(v.prevInitialSections, init) THEN init
            ELSE v.prevInitialSections,
            v.prevArticleHtml,
            TRUE,
            IF v.hasInitializedExpanded THEN v.expandedId ELSE IntroId,
            IF v.hasInitializedExpanded THEN v.expandedSections ELSE <<IntroId>>)

\* expandedSections.filter((s) => s !== id)
Without(ids, id) == SelectSeq(ids, LAMBDA x : x # id)

\* onAccordionPress: the new expandedId and the new expandedSections.
onAccordionPress(current, ids, id) ==
  IF current = id
  THEN <<NullId, Without(ids, id)>>
  ELSE <<id, Append(Without(ids, id), id)>>

\* A run of parseArticleHtml: for which string, whether the pipeline raised,
\* whether it was queued behind runAfterInteractions, and whether
\* articleHtml had changed since it was scheduled.
Parse(set, html, threw, deferred, stale) ==
  [set |-> set, html |-> html, threw |-> threw, deferred |-> deferred, stale |-> stale]

NoParse == Parse(FALSE, <<>>, FALSE, FALSE, FALSE)

\* A scheduled zero-delay timer: the articleHtml of its closure, and whether
\* it was set by the runAfterInteractions task.
Timer(html, deferred) == [html |-> html, deferred |-> deferred]

----------------------------------------------------------------------------
(* The pipeline as a state machine: one action per call of an extraction   *)
(* function.                                                               *)

\* The variables of the renderer.
renderer ==
  <<mounted, htmlSize, scrollToSection, parsedContent, isParsing, shownSections,
    expandedId, expandedSections, prevInitialSectionsRef, prevArticleHtmlRef,
    hasInitializedExpanded, timers, afterInteractions, lastParse, changes, presses>>

\* The variables of the pipeline, articleHtml aside.
pipeline == <<pc, infoboxResult, introResult, sectionsResult, parseResult, depth, firstRun>>

vars == <<articleHtml, pipeline, renderer>>

\* The renderer before its first render: the initial values of its state
\* and refs.
NotMounted ==
  /\ mounted = "no"
  /\ htmlSize = 0
  /\ scrollToSection = NullId
  /\ parsedContent = NullContent
  /\ isParsing = FALSE
  /\ shownSections = LoadingSections
  /\ expandedId = IntroId
  /\ expandedSections = <<IntroId>>
  /\ prevInitialSectionsRef = <<>>
  /\ prevArticleHtmlRef = <<>>
  /\ hasInitializedExpanded = FALSE
  /\ timers = {}
  /\ afterInteractions = {}
  /\ lastParse = NoParse
  /\ changes = 0
  /\ presses = 0

NoInfoboxResult  == InfoboxResult(FALSE, FALSE, <<>>, NoImage, <<>>)
NoIntroResult    == IntroResult(FALSE, FALSE, <<>>, <<>>)
NoSectionsResult == SectionsResult(FALSE, FALSE, <<>>)
NoParseResult    == Return(Document(<<>>))

\* The record of a finished run.
Run(set, input, ib, in, secs) ==
  [set |-> set, input |-> input, infobox |-> ib, intro |-> in, sections |-> secs]

NoRun == Run(FALSE, <<>>, NoInfoboxResult, NoIntroResult, NoSectionsResult)

\* No call of the current run ended in its catch block.
NothingCaught ==
  ~infoboxResult.caught /\ ~introResult.caught /\ ~sectionsResult.caught

\* The first finished run of the whole pipeline in which nothing was raised
\* is kept for comparison.
Remember ==
  IF firstRun.set \/ pc # "done" \/ ~NothingCaught THEN firstRun
  ELSE Run(TRUE, articleHtml, infoboxResult, introResult, sectionsResult)

Init ==
  /\ articleHtml \in Inputs
  /\ pc = "start"
  /\ infoboxResult = NoInfoboxResult
  /\ introResult = NoIntroResult
  /\ sectionsResult = NoSectionsResult
  /\ parseResult = NoParseResult
  /\ depth = 0
  /\ firstRun = NoRun
  /\ NotMounted

\* The callers may also hand over null or undefined.
InitAny ==
  /\ articleHtml \in Inputs \cup {Undefined}
  /\ pc = "start"
  /\ infoboxResult = NoInfoboxResult
  /\ introResult = NoIntroResult
  /\ sectionsResult = NoSectionsResult
  /\ parseResult = NoParseResult
  /\ depth = 0
  /\ firstRun = NoRun
  /\ NotMounted

\* parseArticleHtml, first call: extractInfobox(articleHtml)
ExtractInfobox ==
  /\ pc = "start"
  /\ \E raise \in BOOLEAN :
       /\ infoboxResult' = extractInfobox(articleHtml, raise)
       /\ pc' = IF infoboxResult'.threw THEN "threw" ELSE "infobox"
  /\ UNCHANGED <<articleHtml, introResult, sectionsResult, parseResult, depth, firstRun, renderer>>

\* parseArticleHtml, second call: extractIntro(noInfobox)
ExtractIntro ==
  /\ pc = "infobox"
  /\ \E raise \in BOOLEAN :
       /\ introResult' = extractIntro(infoboxResult.remaining, raise)
       /\ pc' = IF introResult'.threw THEN "threw" ELSE "intro"
  /\ UNCHANGED <<articleHtml, infoboxResult, sectionsResult, parseResult, depth, firstRun, renderer>>

\* parseArticleHtml, third call: splitIntoSections(remaining)
SplitIntoSections ==
  /\ pc = "intro"
  /\ \E throwAt \in 0..MaxThrowAt :
       /\ sectionsResult' = splitIntoSections(introResult.remaining, throwAt)
       /\ pc' = IF sectionsResult'.threw THEN "threw" ELSE "done"
  /\ UNCHANGED <<articleHtml, infoboxResult, introResult, parseResult, depth, firstRun, renderer>>

\* extractIntro called on a string directly
CallExtractIntro ==
  /\ pc = "start"
  /\ \E raise \in BOOLEAN :
       /\ introResult' = extractIntro(articleHtml, raise)
       /\ pc' = IF introResult'.threw THEN "threw" ELSE "introOnly"
  /\ UNCHANGED <<articleHtml, infoboxResult, sectionsResult, parseResult, depth, firstRun, renderer>>

\* splitIntoSections called on a string directly
CallSplitIntoSections ==
  /\ pc = "start"
  /\ \E throwAt \in 0..MaxThrowAt :
       /\ sectionsResult' = splitIntoSections(articleHtml, throwAt)
       /\ pc' = IF sectionsResult'.threw THEN "threw" ELSE "sectionsOnly"
  /\ UNCHANGED <<articleHtml, infoboxResult, introResult, parseResult, depth, firstRun, renderer>>

\* parseHtml called on a string directly; "invalid" : its error reached the
\* caller.
CallParseHtml ==
  /\ pc = "start"
  /\ parseResult' = parseHtml(articleHtml)
  /\ pc' = IF parseResult'.exc THEN "invalid" ELSE "parsed"
  /\ UNCHANGED <<articleHtml, infoboxResult, introResult, sectionsResult, depth, firstRun, renderer>>

\* The strings a finished run has produced.
Outputs ==
  {infoboxResult.remaining, infoboxResult.infoboxHtml, introResult.introHtml, introResult.remaining}
  \cup {sectionsResult.sections[i].html : i \in 1..Len(sectionsResult.sections)}

\* An output is given to the functions again.
Reapply ==
  /\ pc \in {"done", "introOnly", "sectionsOnly"}
  /\ depth < MaxReapply
  /\ articleHtml' \in Outputs
  /\ pc' = "start"
  /\ infoboxResult' = NoInfoboxResult
  /\ introResult' = NoIntroResult
  /\ sectionsResult' = NoSectionsResult
  /\ depth' = depth + 1
  /\ firstRun' = Remember
  /\ UNCHANGED <<parseResult, renderer>>

\* The document of the first run is loaded and processed again.
Reload ==
  /\ pc = "done"
  /\ depth >= 1
  /\ firstRun.set
  /\ articleHtml' = firstRun.input
  /\ pc' = "start"
  /\ infoboxResult' = NoInfoboxResult
  /\ introResult' = NoIntroResult
  /\ sectionsResult' = NoSectionsResult
  /\ UNCHANGED <<parseResult, depth, firstRun, renderer>>

Next ==
  \/ ExtractInfobox
  \/ ExtractIntro
  \/ SplitIntoSections
  \/ CallExtractIntro
  \/ CallSplitIntoSections
  \/ CallParseHtml
  \/ Reapply
  \/ Reload

Spec == Init /\ [][Next]_vars

SpecAny == InitAny /\ [][Next]_vars

----------------------------------------------------------------------------
(* ArticleSectionedRenderer as a state machine: a change of props with its *)
(* render and effects, the scheduled callbacks, and the user's requests.   *)

\* How often articleHtml changes after the first render.
MaxChanges == 1
\* How many accordion presses and scroll requests are made.
MaxPresses == 1

\* The lengths a document may have: at the threshold and above it.
Sizes(html) ==
  IF html = <<>> THEN {0} ELSE {LARGE_HTML_THRESHOLD, LARGE_HTML_THRESHOLD + 1}

CurrentView ==
  View(shownSections, prevInitialSectionsRef, prevArticleHtmlRef,
       hasInitializedExpanded, expandedId, expandedSections)

\* The writes of the sections effect.
SetView(v) ==
  /\ shownSections' = v.shown
  /\ prevInitialSectionsRef' = v.prevInitialSections
  /\ prevArticleHtmlRef' = v.prevArticleHtml
  /\ hasInitializedExpanded' = v.hasInitializedExpanded
  /\ expandedId' = v.expandedId
  /\ expandedSections' = v.expandedSections

\* The cleanup of the parse effect: clearTimeout(timeoutId) on the short way,
\* handle.cancel() on the long way.  The timer set by a runAfterInteractions
\* task that has already run is out of its reach.
NotCancelled == {t \in timers : t.deferred}

\* A render with a new articleHtml and the effects after it: the parse
\* effect, the sections effect for this render, and the sections effect
\* again for the render that a change of parsedContent causes.
RenderWith(html, size) ==
  /\ articleHtml' = html
  /\ htmlSize' = size
  /\ IF Falsy(html)
     THEN /\ parsedContent' = NullContent
          /\ isParsing' = isParsing
          /\ timers' = NotCancelled
          /\ afterInteractions' = {}
     ELSE /\ parsedContent' = parsedContent
          /\ isParsing' = TRUE
          /\ IF IsLarge(size)
             THEN /\ afterInteractions' = {html}
                  /\ timers' = NotCancelled
             ELSE /\ afterInteractions' = {}
                  /\ timers' = NotCancelled \cup {Timer(html, FALSE)}
  /\ \E v \in {SyncEffect(CurrentView, html, initialSections(parsedContent))} :
       \E w \in {SyncEffect(v, html, initialSections(parsedContent'))} : SetView(w)

\* The first render.
Mount ==
  /\ mounted = "no"
  /\ mounted' = "yes"
  /\ \E html \in Articles : \E size \in Sizes(html) : RenderWith(html, size)
  /\ UNCHANGED <<pipeline, scrollToSection, lastParse, changes, presses>>

\* The parent passes another articleHtml.
SetArticleHtml ==
  /\ mounted = "yes"
  /\ changes < MaxChanges
  /\ changes' = changes + 1
  /\ \E html \in Articles \ {articleHtml} : \E size \in Sizes(html) : RenderWith(html, size)
  /\ UNCHANGED <<pipeline, mounted, scrollToSection, lastParse, presses>>

\* The component is taken away; the cleanup of the parse effect runs.
Unmount ==
  /\ mounted = "yes"
  /\ mounted' = "gone"
  /\ timers' = NotCancelled
  /\ afterInteractions' = {}
  /\ UNCHANGED <<articleHtml, pipeline, htmlSize, scrollToSection, parsedContent, isParsing,
                 shownSections, expandedId, expandedSections, prevInitialSectionsRef,
                 prevArticleHtmlRef, hasInitializedExpanded, lastParse, changes, presses>>

\* The runAfterInteractions task runs: setTimeout(parseArticleHtml, 0).
InteractionsDone ==
  /\ \E html \in afterInteractions :
       /\ afterInteractions' = {}
       /\ timers' = timers \cup {Timer(html, TRUE)}
  /\ UNCHANGED <<articleHtml, pipeline, mounted, htmlSize, scrollToSection, parsedContent,
                 isParsing, shownSections, expandedId, expandedSections,
                 prevInitialSectionsRef, prevArticleHtmlRef, hasInitializedExpanded,
                 lastParse, changes, presses>>

\* A timer runs parseArticleHtml with the articleHtml of its closure; the
\* render after it runs the sections effect.  A component that is gone
\* ignores the writes.
TimerFires ==
  /\ \E t \in timers :
       /\ timers' = timers \ {t}
       /\ IF mounted = "yes"
          THEN /\ \E throws \in BOOLEAN :
                    /\ parsedContent' = parseArticleHtml(parsedContent, t.html, throws)
                    /\ lastParse' = Parse(TRUE, t.html, throws, t.deferred,
                                          t.html # articleHtml)
               /\ isParsing' = FALSE
               /\ \E v \in {SyncEffect(CurrentView, articleHtml,
                                       initialSections(parsedContent'))} : SetView(v)
          ELSE UNCHANGED <<parsedContent, lastParse, isParsing, shownSections,
                           prevInitialSectionsRef, prevArticleHtmlRef,
                           hasInitializedExpanded, expandedId, expandedSections>>
  /\ UNCHANGED <<articleHtml, pipeline, mounted, htmlSize, scrollToSection,
                 afterInteractions, changes, presses>>

\* The ids of the entries on display.
ShownIds == {shownSections[i].id : i \in 1..Len(shownSections)}

\* The accordions are on display, not the skeleton.
AccordionsShown == mounted = "yes" /\ ~isParsing /\ ~parsedContent.null

\* The user presses the title of an accordion.
PressAccordion ==
  /\ AccordionsShown
  /\ presses < MaxPresses
  /\ presses' = presses + 1
  /\ \E id \in ShownIds :
       \E r \in {onAccordionPress(expandedId, expandedSections, id)} :
         /\ expandedId' = r[1]
         /\ expandedSections' = r[2]
  /\ UNCHANGED <<articleHtml, pipeline, mounted, htmlSize, scrollToSection, parsedContent,
                 isParsing, shownSections, prevInitialSectionsRef, prevArticleHtmlRef,
                 hasInitializedExpanded, timers, afterInteractions, lastParse, changes>>

\* The parent asks for a section: the effect on [scrollToSection].
ScrollTo ==
  /\ mounted = "yes"
  /\ presses < MaxPresses
  /\ presses' = presses + 1
  /\ \E id \in ShownIds \ {scrollToSection} :
       /\ scrollToSection' = id
       /\ expandedId' = id
  /\ UNCHANGED <<articleHtml, pipeline, mounted, htmlSize, parsedContent, isParsing,
                 shownSections, expandedSections, prevInitialSectionsRef,
                 prevArticleHtmlRef, hasInitializedExpanded, timers, afterInteractions,
                 lastParse, changes>>

InitUI ==
  /\ articleHtml = <<>>
  /\ pc = "start"
  /\ infoboxResult = NoInfoboxResult
  /\ introResult = NoIntroResult
  /\ sectionsResult = NoSectionsResult
  /\ parseResult = NoParseResult
  /\ depth = 0
  /\ firstRun = NoRun
  /\ NotMounted

NextUI ==
  \/ Mount
  \/ SetArticleHtml
  \/ Unmount
  \/ InteractionsDone
  \/ TimerFires
  \/ PressAccordion
  \/ ScrollTo

SpecUI == InitUI /\ [][NextUI]_vars

\* The timers and the runAfterInteractions tasks run in the end.
SpecUILive == SpecUI /\ WF_vars(TimerFires) /\ WF_vars(InteractionsDone)

----------------------------------------------------------------------------
(* initialSections as a function of any parsedContent: the list is built   *)
(* for a value that the pipeline need not be able to return.               *)

\* How many heading sections a parsedContent holds.
MaxSections == 3

\* Empty, white space only, and with content.
HtmlKinds == {"empty", "blank", "full"}

HtmlOf(kind, full) ==
  CASE kind = "empty" -> <<>>
    [] kind = "blank" -> <<Word(WS), Word(WS)>>
    [] kind = "full"  -> full

SectionsOf(kinds) ==
  [i \in 1..Len(kinds) |->
     Section(SectionId(i - 1), <<HeadTexts[i + 1]>>,
             HtmlOf(kinds[i], InSection(H2(HeadTexts[i + 1]) \o Para(ParaTexts[i + 1]))))]

Contents ==
  {Content(HtmlOf(ib, <<OpenC("table", {"infobox"})>> \o Row(<<Word("Born")>>)
                        \o <<Close("table")>>),
           NoImage,
           HtmlOf(in, <<Word(WS)>> \o Para("Intro text")),
           SectionsOf(kinds)) :
     ib \in HtmlKinds, in \in HtmlKinds,
     kinds \in UNION {[1..n -> HtmlKinds] : n \in 0..MaxSections}}

InitList ==
  /\ articleHtml = <<>>
  /\ pc = "start"
  /\ infoboxResult = NoInfoboxResult
  /\ introResult = NoIntroResult
  /\ sectionsResult = NoSectionsResult
  /\ parseResult = NoParseResult
  /\ depth = 0
  /\ firstRun = NoRun
  /\ mounted = "no"
  /\ htmlSize = 0
  /\ scrollToSection = NullId
  /\ parsedContent \in Contents
  /\ isParsing = FALSE
  /\ shownSections = LoadingSections
  /\ expandedId = IntroId
  /\ expandedSections = <<IntroId>>
  /\ prevInitialSectionsRef = <<>>
  /\ prevArticleHtmlRef = <<>>
  /\ hasInitializedExpanded = FALSE
  /\ timers = {}
  /\ afterInteractions = {}
  /\ lastParse = NoParse
  /\ changes = 0
  /\ presses = 0

\* useMemo builds the list for parsedContent, and the sections effect takes
\* it: prevInitialSectionsRef.current = initialSections; setSections(...).
BuildList ==
  /\ mounted = "no"
  /\ mounted' = "yes"
  /\ shownSections' = initialSections(parsedContent)
  /\ prevInitialSectionsRef' = initialSections(parsedContent)
  /\ UNCHANGED <<articleHtml, pipeline, htmlSize, scrollToSection, parsedContent, isParsing,
                 expandedId, expandedSections, prevArticleHtmlRef, hasInitializedExpanded,
                 timers, afterInteractions, lastParse, changes, presses>>

NextList == BuildList

SpecList == InitList /\ [][NextList]_vars

----------------------------------------------------------------------------
(* What the properties observe *)

\* The words of character data in a string, white space aside.
WordsOf(h) == {h[i].name : i \in {j \in 1..Len(h) : h[j].t = "text"}} \ {WS}

RECURSIVE TextOutsideH2(_)
\* The words of a subtree that are not inside an h2.
TextOutsideH2(n) ==
  IF IsText(n) THEN {n.words[i] : i \in 1..Len(n.words)} \ {WS}
  ELSE IF n.name = "h2" THEN {}
  ELSE UNION {TextOutsideH2(n.kids[i]) : i \in 1..Len(n.kids)}

TopLevel(dom) == getChildren(dom, <<>>)

\* The element extractInfobox takes out of a document, or Null.
InfoboxOf(dom) == selectOne(dom, InfoboxSelector, TopLevel(dom))

HasInfobox(h) == Let(parseDocument(h), LAMBDA dom : InfoboxOf(dom) # Null)

WithoutInfobox(dom) ==
  Let(InfoboxOf(dom), LAMBDA ib : IF ib = Null THEN dom ELSE RemoveAt(dom, ib))

\* The words of a document outside the extracted infobox and outside h2.
KeptText(h) == Let(parseDocument(h), LAMBDA dom : TextOutsideH2(WithoutInfobox(dom)))

HeadingsIn(dom) ==
  Let(selectAll(dom, "h2", TopLevel(dom)),
      LAMBDA h2s : {OrSection(Trim(textContent(NodeAt(dom, h2s[i])))) : i \in 1..Len(h2s)})

\* The heading texts of the h2 elements a string holds.
H2Headings(h) == Let(parseDocument(h), HeadingsIn)

HasH2(h) == H2Headings(h) # {}

SectionContainers(dom) == SectionElements(dom, getChildren(dom, BodyOf(dom)))

\* The body has a section-container among its direct children.
HasSectionContainers(h) ==
  Let(parseDocument(h), LAMBDA dom : Len(SectionContainers(dom)) > 0)

\* The string splitIntoSections was called with.
SplitArg == IF pc = "sectionsOnly" THEN articleHtml ELSE introResult.remaining

\* The string extractIntro was called with.
IntroArg == IF pc = "introOnly" THEN articleHtml ELSE infoboxResult.remaining

Returned == sectionsResult.sections

\* An entry built from an h2, not the whole-input entry 'Content'.
FromHeading(s) == s # ContentSection(SplitArg)

SectionWords == UNION {WordsOf(Returned[i].html) : i \in 1..Len(Returned)}

IsNumber(x) == x.nan \in BOOLEAN /\ x.val \in Int

----------------------------------------------------------------------------
(* Properties *)

\* C1: for every input string (empty, blank and malformed ones included, and
\* the functions' own outputs fed back) extractInfobox, extractIntro and
\* splitIntoSections return a structurally valid result and never throw.
C1_NeverThrows ==
  /\ pc # "threw"
  /\ ~infoboxResult.threw /\ ~introResult.threw /\ ~sectionsResult.threw
  /\ IsString(infoboxResult.infoboxHtml) /\ IsString(infoboxResult.remaining)
  /\ infoboxResult.infoboxImage.none \in BOOLEAN
  /\ IsNumber(infoboxResult.infoboxImage.width)
  /\ IsNumber(infoboxResult.infoboxImage.height)
  /\ IsString(introResult.introHtml) /\ IsString(introResult.remaining)
  /\ \A i \in 1..Len(Returned) :
       /\ \E k \in 0..Len(Returned) + MaxBlocks * 2 : Returned[i].id = SectionId(k)
       /\ Returned[i].heading # <<>>
       /\ IsString(Returned[i].html)

\* A malformed string (its tags do not all close) that came out of a first
\* run has gone through the three functions again.
C1_Witness ==
  /\ depth >= 1
  /\ pc = "done"
  /\ articleHtml # <<>>
  /\ render(parseDocument(articleHtml)) # articleHtml

\* C2: on the scenario document (infobox with image, paragraph 'Intro text'
\* directly in body, sections 'History' and 'Legacy') the composition yields
\* the image https://x/y.png 100x50, an introHtml containing 'Intro text' and
\* exactly the two sections, in order.
C2_Scenario ==
  (articleHtml = Scenario /\ pc = "done" /\ NothingCaught) =>
    /\ infoboxResult.infoboxImage =
         [none |-> FALSE, src |-> SrcHttps, width |-> Num(100), height |-> Num(50)]
    /\ "Intro text" \in WordsOf(introResult.introHtml)
    /\ [i \in 1..Len(Returned) |-> Returned[i].heading] = << <<"History">>, <<"Legacy">> >>

\* C3: every piece of text outside the extracted infobox and outside h2
\* headings is in introHtml or in the html of a returned section.
C3_Completeness ==
  (pc = "done" /\ NothingCaught) =>
    KeptText(articleHtml) \subseteq WordsOf(introResult.introHtml) \cup SectionWords

C5_EmptyDropped ==
  ~sectionsResult.caught =>
    \A i \in 1..Len(Returned) :
      FromHeading(Returned[i]) => TextOutsideH2(parseDocument(Returned[i].html)) # {}

\* C6: a document with no infobox and no h2 yields infoboxHtml = "", no
\* image, an introHtml with all of the document's text, and no sections.
C6_Stub ==
  (pc = "done" /\ ~HasInfobox(articleHtml) /\ ~HasH2(articleHtml)) =>
    /\ infoboxResult.infoboxHtml = <<>>
    /\ infoboxResult.infoboxImage.none
    /\ WordsOf(articleHtml) \subseteq WordsOf(introResult.introHtml)
    /\ Returned = <<>>

\* A stub with section-containers (Strategy A) has gone through the pipeline.
C6_Witness ==
  /\ pc = "done"
  /\ NothingCaught
  /\ ~HasInfobox(articleHtml) /\ ~HasH2(articleHtml)
  /\ HasSectionContainers(articleHtml)
  /\ Cardinality(WordsOf(articleHtml)) >= 2

\* C7: the src of a returned infoboxImage starts with https://.
C7_Https ==
  ~infoboxResult.infoboxImage.none =>
    StartsWith(infoboxResult.infoboxImage.src, <<"https:", "/", "/">>)

\* C8: when an exception is raised inside splitIntoSections, the returned
\* list is exactly the one entry section-0 / 'Content' / the input.
C8_SingleFallback ==
  sectionsResult.caught => Returned = <<ContentSection(SplitArg)>>

\* C9: a failure inside extractIntro gives exactly {introHtml: input,
\* remaining: ""}; a failure inside extractInfobox gives exactly
\* {infoboxHtml: "", infoboxImage: none, remaining: input}.
C9_FallbackKeepsInput ==
  /\ introResult.caught =>
       introResult.introHtml = IntroArg /\ introResult.remaining = <<>>
  /\ infoboxResult.caught =>
       /\ infoboxResult.infoboxHtml = <<>>
       /\ infoboxResult.infoboxImage = NoImage
       /\ infoboxResult.remaining = articleHtml

\* Both functions have failed on a document that holds an infobox and an h2.
C9_Witness ==
  /\ pc = "intro"
  /\ infoboxResult.caught /\ introResult.caught
  /\ HasInfobox(articleHtml)
  /\ HasH2(articleHtml)

RECURSIVE Subtrees(_)
Subtrees(n) == {n} \cup UNION {Subtrees(n.kids[i]) : i \in 1..Len(n.kids)}

\* The nodes of the document a string holds.
NodesOf(h) == IF IsString(h) THEN Subtrees(parseDocument(h)) ELSE {}

\* The element extractInfobox finds in a document that has one.
ExtractedInfobox(h) == Let(parseDocument(h), LAMBDA dom : NodeAt(dom, InfoboxOf(dom)))

\* The infobox element as it was found, and every element carrying the
\* infobox class in the returned infoboxHtml.
InfoboxElements ==
  {ExtractedInfobox(articleHtml)}
  \cup {n \in NodesOf(infoboxResult.infoboxHtml) : "infobox" \in n.cls}

\* The nodes handed on as intro or as the html of a section.
SlotNodes ==
  NodesOf(introResult.introHtml)
  \cup UNION {NodesOf(Returned[i].html) : i \in 1..Len(Returned)}

\* C11: in the composed pipeline, when extractInfobox returns a non-empty
\* infoboxHtml, neither the extracted infobox element nor any of its text
\* occurs in introHtml or in the html of a section.
C11_NoInfoboxLeak ==
  (pc = "done" /\ infoboxResult.infoboxHtml # <<>>) =>
    /\ InfoboxElements \cap SlotNodes = {}
    /\ WordsOf(render(ExtractedInfobox(articleHtml)))
         \cap (WordsOf(introResult.introHtml) \cup SectionWords) = {}

\* An infobox was extracted from a flat document, and the run went on to a
\* non-empty intro and at least one section.
C11_Witness ==
  /\ pc = "done" /\ NothingCaught
  /\ infoboxResult.infoboxHtml # <<>>
  /\ ~HasSectionContainers(infoboxResult.remaining)
  /\ introResult.introHtml # <<>>
  /\ Len(Returned) >= 1

\* No element of the document a string holds carries the infobox class.
NoInfoboxIn(h) == \A n \in NodesOf(h) : "infobox" \notin n.cls

\* extractInfobox has been called in the current run.
InfoboxCalled == pc \in {"infobox", "intro", "done"}

\* C12: when no element matches the infobox selector, extractInfobox returns
\* infoboxHtml = "", no image, and the input string itself as remaining, not
\* a new serialization of it.
C12_InputUnchanged ==
  (InfoboxCalled /\ NoInfoboxIn(articleHtml)) =>
    /\ infoboxResult.infoboxHtml = <<>>
    /\ infoboxResult.infoboxImage = NoImage
    /\ infoboxResult.remaining = articleHtml

\* extractInfobox has returned normally on a string without infobox whose
\* serialization after parsing differs from it.
C12_Witness ==
  /\ pc = "infobox" /\ ~infoboxResult.caught
  /\ articleHtml # <<>>
  /\ NoInfoboxIn(articleHtml)
  /\ render(parseDocument(articleHtml)) # articleHtml

\* The elements that match the infobox selector, in document order.
MatchingIn(dom) == selectAll(dom, InfoboxSelector, TopLevel(dom))

SeveralInfoboxes(h) == Len(MatchingIn(parseDocument(h))) >= 2

\* The matching elements after the first that are not inside the first.
OthersOutsideFirst(dom) ==
  Let(MatchingIn(dom),
      LAMBDA ms : {NodeAt(dom, ms[i]) : i \in {j \in 2..Len(ms) : ~IsPrefix(ms[1], ms[j])}})

\* C13: when several elements match the infobox selector, the first in
\* document order is extracted and removed, and every other matching element
\* outside the first is still in remaining, unchanged.
C13_OthersKept ==
  (InfoboxCalled /\ ~infoboxResult.caught /\ SeveralInfoboxes(articleHtml)) =>
    /\ infoboxResult.infoboxHtml # <<>>
    /\ ExtractedInfobox(articleHtml) \notin NodesOf(infoboxResult.remaining)
    /\ OthersOutsideFirst(parseDocument(articleHtml))
         \subseteq NodesOf(infoboxResult.remaining)

\* The heading texts of the h2 elements of a document, in document order.
HeadingSeqIn(dom) ==
  Let(selectAll(dom, "h2", TopLevel(dom)),
      LAMBDA h2s : [i \in 1..Len(h2s) |-> OrSection(Trim(textContent(NodeAt(dom, h2s[i]))))])

HeadingSeq(h) == Let(parseDocument(h), HeadingSeqIn)

\* The place of the first occurrence of a heading; 0 when it does not occur.
PlaceOf(heading, seq) == First({k \in 1..Len(seq) : seq[k] = heading})

\* splitIntoSections has returned in the current run.
SplitReturned == pc \in {"done", "sectionsOnly"}

\* C14: in every list returned by splitIntoSections the i-th entry, counted
\* from 0, has the id section-i, the ids are pairwise distinct, and the
\* entries follow the order of their headings in the document.
C14_PositionalIds ==
  SplitReturned =>
    /\ \A i \in 1..Len(Returned) : Returned[i].id = SectionId(i - 1)
    /\ \A i, j \in 1..Len(Returned) : i # j => Returned[i].id # Returned[j].id
    /\ \A i, j \in 1..Len(Returned) :
         (i < j /\ FromHeading(Returned[i]) /\ FromHeading(Returned[j])) =>
           PlaceOf(Returned[i].heading, HeadingSeq(SplitArg))
             <= PlaceOf(Returned[j].heading, HeadingSeq(SplitArg))

\* The first img element inside the infobox of a document.
InfoboxImg(dom) == NodeAt(dom, selectAll(dom, "img", <<InfoboxOf(dom)>>)[1])

\* The attribute's integer value when it parses, the default otherwise.
IntegerOr(attr, default) == IF parseInt(attr).nan THEN Num(default) ELSE parseInt(attr)

\* C15: the width and height of a returned infoboxImage are integers: the
\* attribute's integer value when it parses, 400 and 300 when the attribute
\* is absent or cannot be parsed.
C15_IntegerSize ==
  (InfoboxCalled /\ ~infoboxResult.infoboxImage.none) =>
    Let(InfoboxImg(parseDocument(articleHtml)),
        LAMBDA img :
          /\ infoboxResult.infoboxImage.width = IntegerOr(img.w, 400)
          /\ infoboxResult.infoboxImage.height = IntegerOr(img.h, 300))

\* C16: parseHtml raises its error exactly when the argument is not a string
\* or is the empty string; for every other string, white space and malformed
\* markup included, it returns a document tree.
C16_InvalidInputOnly ==
  /\ pc = "invalid" => (~IsString(articleHtml) \/ articleHtml = <<>>)
  /\ pc = "parsed" =>
       /\ IsString(articleHtml) /\ articleHtml # <<>>
       /\ ~parseResult.exc
       /\ parseResult.val.name = "#document"

\* parseHtml has returned a tree for a string whose tags do not match: the
\* serialization of the tree differs from the string.
C16_Witness ==
  /\ pc = "parsed"
  /\ render(parseResult.val) # articleHtml

\* C17: when the pipeline is given an input that is not a string, the
\* invalid-input error reaches the caller of the pipeline: no extraction
\* function catches it and returns a fallback result in its place.
C17_InvalidInputSurfaces ==
  ~IsString(articleHtml) =>
    /\ ~InfoboxCalled
    /\ ~infoboxResult.caught /\ ~introResult.caught /\ ~sectionsResult.caught

\* A subtree holds an h2.
ContainsH2(n) == \E m \in Subtrees(n) : m.name = "h2"

\* The direct children of the body of a document, or of the document when
\* it has no body.
TopNodesIn(dom) == NodesAt(dom, getChildren(dom, BodyOf(dom)))

TopNodes(h) == Let(parseDocument(h), TopNodesIn)

\* The section-containers among them.
SectionNodesOf(h) == SelectSeq(TopNodes(h), LAMBDA n : n.name = "section")

\* The length of the longest prefix in which no node holds an h2.
PrefixWithoutH2(nodes) ==
  Cardinality({i \in 1..Len(nodes) : \A j \in 1..i : ~ContainsH2(nodes[j])})

\* extractIntro has returned, without failure, in the current run.
IntroReturned == pc \in {"intro", "done", "introOnly"} /\ ~introResult.caught

\* introHtml and remaining are the serializations of the first m nodes and
\* of the others.
SplitsAfter(nodes, m) ==
  /\ introResult.introHtml = RenderAll(SubSeq(nodes, 1, m))
  /\ introResult.remaining = RenderAll(SubSeq(nodes, m + 1, Len(nodes)))

\* C18 as stated: with section-containers among the children of the body,
\* introHtml is the serialization of the longest prefix of section-containers
\* without h2, and remaining that of the section-containers from the first
\* one with an h2 on.
C18_MaximalPrefix ==
  (IntroReturned /\ IsString(IntroArg) /\ SectionNodesOf(IntroArg) # <<>>) =>
    Let(SectionNodesOf(IntroArg),
        LAMBDA secs : SplitsAfter(secs, PrefixWithoutH2(secs)))

\* C18 as amended: the same when some section-container holds an h2; when
\* none does, introHtml is the input string itself and remaining is empty.
C18_PrefixOrWhole ==
  (IntroReturned /\ IsString(IntroArg) /\ SectionNodesOf(IntroArg) # <<>>) =>
    Let(SectionNodesOf(IntroArg),
        LAMBDA secs :
          IF PrefixWithoutH2(secs) = Len(secs)
          THEN introResult.introHtml = IntroArg /\ introResult.remaining = <<>>
          ELSE SplitsAfter(secs, PrefixWithoutH2(secs)))

\* extractIntro has split a document whose section-containers start with one
\* without h2 and go on with one that has an h2 and a later one that has not.
C18_Witness ==
  /\ IntroReturned /\ IsString(IntroArg)
  /\ Let(SectionNodesOf(IntroArg),
         LAMBDA secs :
           /\ Len(secs) >= 3
           /\ PrefixWithoutH2(secs) = 1
           /\ ~ContainsH2(secs[3]))

\* The h2 elements of a subtree, in document order.
RECURSIVE H2sOf(_)
RECURSIVE H2sOfAll(_)
H2sOf(n) == IF n.name = "h2" THEN <<n>> ELSE H2sOfAll(n.kids)

H2sOfAll(nodes) ==
  IF nodes = <<>> THEN <<>> ELSE H2sOf(Head(nodes)) \o H2sOfAll(Tail(nodes))

\* The heading a section gets from an h2: its text without the white space
\* around it, or the literal 'Section' when nothing is left.
HeadingText(h2) ==
  IF Trim(textContent(h2)) = <<>> THEN <<"Section">> ELSE Trim(textContent(h2))

\* splitIntoSections has returned, without failure, in the current run.
SplitCompleted == SplitReturned /\ ~sectionsResult.caught /\ IsString(SplitArg)

\* The section-containers that hold an h2.
H2SectionsOf(h) == SelectSeq(SectionNodesOf(h), ContainsH2)

\* C19: with section-containers among the children of the body,
\* splitIntoSections returns one entry per section-container that holds an
\* h2, in order; its heading is the trimmed text of the container's first h2
\* or the fallback literal, and its html is the whole container, h3 and h4
\* headings included, which give no entry of their own.
C19_OnePerH2Section ==
  (SplitCompleted /\ SectionNodesOf(SplitArg) # <<>>) =>
    Let(H2SectionsOf(SplitArg),
        LAMBDA secs :
          /\ Len(Returned) = Len(secs)
          /\ \A i \in 1..Len(secs) :
               /\ Returned[i].heading = HeadingText(H2sOf(secs[i])[1])
               /\ Returned[i].html = render(secs[i])
               /\ \A n \in Subtrees(secs[i]) :
                    n.name \in {"h3", "h4"} => n \in NodesOf(Returned[i].html))

\* Two entries have come from a document with three or more
\* section-containers: one whose h2 has white space around its text and is
\* followed by an h3, and one whose first h2 is empty.
C19_Witness ==
  /\ SplitCompleted
  /\ Len(SectionNodesOf(SplitArg)) >= 3
  /\ Len(Returned) = 2
  /\ Returned[1].heading = <<"History">>
  /\ \E n \in NodesOf(Returned[1].html) : n.name = "h3"
  /\ Returned[2].heading = <<"Section">>

\* The places of the h2 elements among the top-level nodes.
H2Places(nodes) == {k \in 1..Len(nodes) : nodes[k].name = "h2"}

\* Every h1 and h2 of the document is itself a top-level node.
HeadingsAtTop(nodes) ==
  \A k \in 1..Len(nodes) :
    \A m \in Subtrees(nodes[k]) : m.name \in {"h1", "h2"} => m = nodes[k]

\* The place of the next h1 or h2 after place k, or the place after the last
\* node.
NextHeading(nodes, k) ==
  IF \E j \in k + 1..Len(nodes) : nodes[j].name \in {"h1", "h2"}
  THEN First({j \in k + 1..Len(nodes) : nodes[j].name \in {"h1", "h2"}})
  ELSE Len(nodes) + 1

\* The text of the top-level nodes after the heading at place k, up to the
\* next heading.
BucketText(nodes, k) ==
  UNION {TextOutsideH2(nodes[j]) : j \in k + 1..NextHeading(nodes, k) - 1}

\* A flat document: no section-container among the top-level nodes, and at
\* least one h2.
Flat(h) ==
  /\ IsString(h)
  /\ SectionNodesOf(h) = <<>>
  /\ \E k \in 1..Len(TopNodes(h)) : ContainsH2(TopNodes(h)[k])

\* C20: on a flat document extractIntro's introHtml is the serialization of
\* the top-level nodes before the one that holds the first h2, and
\* splitIntoSections returns for each h2 an entry whose content is that of
\* the top-level nodes after the heading up to, not including, the next h2
\* or h1.
C20_FlatBuckets ==
  /\ (IntroReturned /\ Flat(IntroArg)) =>
       Let(TopNodes(IntroArg),
           LAMBDA nodes :
             introResult.introHtml = RenderAll(SubSeq(nodes, 1, PrefixWithoutH2(nodes))))
  /\ (SplitCompleted /\ Flat(SplitArg) /\ HeadingsAtTop(TopNodes(SplitArg))) =>
       Let(TopNodes(SplitArg),
           LAMBDA nodes :
             /\ Len(Returned) = Cardinality(H2Places(nodes))
             /\ \A k \in H2Places(nodes) :
                  Let(Returned[Cardinality({j \in H2Places(nodes) : j <= k})],
                      LAMBDA s :
                        /\ s.heading = HeadingText(nodes[k])
                        /\ TextOutsideH2(parseDocument(s.html)) = BucketText(nodes, k)))

\* The top-level nodes serialized into the html of a returned section.
NodesInSection(i) == {TopNodes(Returned[i].html)[k] : k \in 1..Len(TopNodes(Returned[i].html))}

\* C21: on a flat document no top-level node is serialized into the html of
\* more than one returned section, also when several h2 are nested in one
\* top-level node.
C21_DisjointBuckets ==
  (SplitCompleted /\ Flat(SplitArg)) =>
    \A i, j \in 1..Len(Returned) :
      i # j => NodesInSection(i) \cap NodesInSection(j) = {}

\* The table rows of the infobox that enclose its first image.
ImageRows(infobox, img) ==
  {r \in Subtrees(infobox) : r.name = "tr" /\ img \in Subtrees(r)}

\* C22: when extractInfobox returns an image, the returned infoboxHtml holds
\* neither the image element the metadata was read from nor a table row of
\* the infobox that encloses it.
C22_ImageRemoved ==
  (InfoboxCalled /\ ~infoboxResult.infoboxImage.none) =>
    Let(InfoboxImg(parseDocument(articleHtml)),
        LAMBDA img :
          /\ img \notin NodesOf(infoboxResult.infoboxHtml)
          /\ ImageRows(ExtractedInfobox(articleHtml), img)
               \cap NodesOf(infoboxResult.infoboxHtml) = {})

\* C23: for every input in which an infobox is found, remaining is the
\* input tree with the infobox element and its descendants removed and
\* nothing else, also when the infobox lies inside a row of an outer table.
C23_OnlyInfoboxRemoved ==
  (InfoboxCalled /\ ~infoboxResult.caught /\ ~NoInfoboxIn(articleHtml)) =>
    infoboxResult.remaining = render(WithoutInfobox(parseDocument(articleHtml)))

----------------------------------------------------------------------------
(* ArticleSectionedRenderer: the parse effect, the sections on display and *)
(* the accordions.                                                         *)

\* C24: a parse that was scheduled for an earlier articleHtml never writes
\* parsedContent or clears isParsing after articleHtml has changed or has
\* become empty, on the way with one timer and on the way with
\* runAfterInteractions and a timer.
C24_NoStaleParse == ~lastParse.stale

\* The last run of parseArticleHtml was for the articleHtml of now, and
\* nothing has been scheduled since.
ParseCompleted ==
  /\ mounted = "yes"
  /\ lastParse.set
  /\ lastParse.html = articleHtml
  /\ ~lastParse.stale
  /\ ~isParsing
  /\ ~parsedContent.null

\* C25: once the parse of the current articleHtml has completed, the
\* sections on display are the list built from parsedContent, html
\* included; neither the Loading placeholder nor the html of the article
\* before stays when ids and headings are those of the list shown before.
C25_ShownIsBuilt ==
  ParseCompleted => shownSections = initialSections(parsedContent)

\* C26: after a run of parseArticleHtml for h in which nothing was raised,
\* parsedContent is the output of the pipeline for h in every field, the
\* html of each section and infoboxImage included.
C26_ParsedIsOutput ==
  (lastParse.set /\ ~lastParse.threw /\ ~parsedContent.null) =>
    parsedContent = PipelineOutput(lastParse.html)

\* The skeleton has given way to the accordions.
Parsed == ~isParsing /\ ~parsedContent.null

\* C27: when articleHtml is not empty and stays as it is, and the timers
\* and the runAfterInteractions tasks run in the end, then in the end
\* isParsing is false and parsedContent is not null, also when the pipeline
\* raises (the fallback is stored).
C27_ParseEnds ==
  \A html \in Articles \ {<<>>} :
    (mounted = "yes" /\ articleHtml = html)
      ~> (mounted # "yes" \/ articleHtml # html \/ Parsed)

\* The pipeline raised, and the fallback for articleHtml is on display.
C27_Witness ==
  /\ mounted = "yes"
  /\ articleHtml # <<>>
  /\ lastParse.set
  /\ lastParse.threw
  /\ lastParse.html = articleHtml
  /\ Parsed
  /\ parsedContent = Fallback(articleHtml)

\* The timers set by the effect itself, not by a runAfterInteractions task.
DirectTimers(ts) == {t \in ts : ~t.deferred}

\* This step is a render with a new, non-empty articleHtml.
Received ==
  /\ mounted' = "yes"
  /\ articleHtml' # articleHtml \/ mounted = "no"
  /\ articleHtml' # <<>>

\* Nothing is parsed in this step; the parse waits behind
\* runAfterInteractions when the length is above 100 * 1024, and behind
\* exactly one timer otherwise.
Queued ==
  /\ parsedContent' = parsedContent
  /\ lastParse' = lastParse
  /\ IF htmlSize' > 100 * 1024
     THEN afterInteractions' = {articleHtml'} /\ DirectTimers(timers') = {}
     ELSE afterInteractions' = {} /\ DirectTimers(timers') = {Timer(articleHtml', FALSE)}

\* This step is the run of a runAfterInteractions task.
TaskRan ==
  /\ afterInteractions # {}
  /\ afterInteractions' = {}
  /\ mounted' = mounted
  /\ articleHtml' = articleHtml

\* The task parses nothing and sets one timer.
TimerSet ==
  /\ parsedContent' = parsedContent
  /\ lastParse' = lastParse
  /\ timers' = timers \cup {Timer(articleHtml, TRUE)}

\* This step is a run of parseArticleHtml.
ParseRan == lastParse' # lastParse

\* The run is the callback of a timer that was waiting.
FromTimer ==
  \E t \in timers :
    /\ timers' = timers \ {t}
    /\ lastParse'.html = t.html
    /\ lastParse'.deferred = t.deferred

\* C28: the effect that receives a new articleHtml never runs the pipeline
\* itself: above 100 * 1024 the parse is queued behind runAfterInteractions
\* and then one zero-delay timer, otherwise behind exactly one zero-delay
\* timer, and the pipeline runs in the callback of a timer only.
C28_NeverSynchronous ==
  [][(Received => Queued) /\ (TaskRan => TimerSet) /\ (ParseRan => FromTimer)]_vars

\* A document above the threshold was parsed behind runAfterInteractions and
\* a timer, and a document of exactly the threshold waits behind one timer.
C28_Witness ==
  /\ mounted = "yes"
  /\ lastParse.set
  /\ lastParse.deferred
  /\ htmlSize = 100 * 1024
  /\ afterInteractions = {}
  /\ DirectTimers(timers) = {Timer(articleHtml, FALSE)}

\* The places of the entries with this id.
PlacesOf(list, id) == {i \in 1..Len(list) : list[i].id = id}

\* What an entry shows of a section.
Shown(entry) == Section(entry.id, entry.heading, entry.html)

\* The entries after the first n.
After(list, n) == SubSeq(list, n + 1, Len(list))

HasContent(s) == ~IsBlank(s.html)

\* The list has its infobox entry (n = 1) or none (n = 0) in front, then
\* the intro, then the sections that have content.
ListOf(list, content, n) ==
  /\ Len(list) >= n + 1
  /\ PlacesOf(list, InfoboxId) = 1..n
  /\ n = 1 => list[1].html = content.infoboxHtml
  /\ PlacesOf(list, IntroId) = {n + 1}
  /\ list[n + 1].html = IF IsBlank(content.introHtml)
                        THEN Para("No introduction available.")
                        ELSE content.introHtml
  /\ \A i \in 1..Len(list) : i > n + 1 => HasContent(list[i])
  /\ After([i \in 1..Len(list) |-> Shown(list[i])], n + 1)
       = SelectSeq(content.sectionsHtml, HasContent)

\* The list was built from parsedContent.
ListBuilt == mounted = "yes" /\ shownSections = initialSections(parsedContent)

\* C29: the list built from a parsed article holds exactly one entry
\* "intro" (with a placeholder for html when the intro is empty or white
\* space only), an entry "infobox" only when infoboxHtml is not blank and
\* then directly before "intro", then the heading sections in the order of
\* the pipeline, none of them with empty or white-space-only html.
C29_ListShape ==
  mounted = "yes" =>
    ListOf(shownSections, parsedContent, IF IsBlank(parsedContent.infoboxHtml) THEN 0 ELSE 1)

\* A list with the infobox, the placeholder for a blank intro, and two
\* sections kept where a blank one between them was left out.
C29_Witness ==
  /\ ListBuilt
  /\ ~IsBlank(parsedContent.infoboxHtml)
  /\ IsBlank(parsedContent.introHtml)
  /\ parsedContent.introHtml # <<>>
  /\ Len(parsedContent.sectionsHtml) = 3
  /\ IsBlank(parsedContent.sectionsHtml[2].html)
  /\ Len(shownSections) = 4

\* C30: after any accordion presses and scrollToSection requests,
\* expandedSections holds exactly the ids of the sections rendered as
\* expanded: the one expandedId, or nothing when expandedId is null.
C30_ExpandedAgree ==
  mounted = "yes" =>
    expandedSections = IF expandedId = NullId THEN <<>> ELSE <<expandedId>>

====
